---- MODULE Spec2Model ----
(***************************************************************************)
(* Movie listing API: the request handlers of app/main.py, app/auth.py,    *)
(* app/routers/movies.py and app/routers/users.py over the relational      *)
(* schema of app/models.py (SQLite, app/database.py).                      *)
(*                                                                         *)
(* Every handler is one action, except register_user, whose three database *)
(* round trips (username query, email query, commit) are separate steps of *)
(* a request slot so that concurrent registrations interleave.             *)
(***************************************************************************)
EXTENDS Integers, Sequences, FiniteSets, TLC

VARIABLES users, movies, ratings, comments, issued, now, reg, resp

vars == <<users, movies, ratings, comments, issued, now, reg, resp>>

(***************************************************************************)
(* Bounds of the model.                                                    *)
(***************************************************************************)
MaxUsers == 2
MaxPending == 2
MaxTokens == 2
MaxTime == 60
TickMinutes == 30
MaxMovies == 2
MaxRatings == 2
MaxComments == 3
MaxGuardRows == 1

(***************************************************************************)
(* Request inputs.                                                         *)
(***************************************************************************)
Usernames == {"alice", "carol"}
Emails == {"alice@x.com", "carol@x.com"}
Passwords == {"pw1", "wrong"}
Missing == "<missing>"

\* app/auth.py UserCreate bodies sent to /auth/register/
RegisterBodies ==
    { [username |-> "alice", email |-> "alice@x.com", password |-> "pw1"],
      [username |-> "alice", email |-> "carol@x.com", password |-> "pw1"],
      [username |-> "carol", email |-> "alice@x.com", password |-> "pw1"],
      [username |-> "carol", email |-> "carol@x.com", password |-> "pw1"] }

\* bodies sent to /auth/login/: the email field may be left out by the client
LoginBodies ==
    [username : Usernames, email : {"alice@x.com", Missing}, password : Passwords]

\* app/routers/users.py UserUpdate bodies
UserUpdates == [username : Usernames, email : Emails]

Slots == 1..MaxPending

(***************************************************************************)
(* Constants of the program.                                               *)
(***************************************************************************)
ACCESS_TOKEN_EXPIRE_MINUTES == 30

\* SQL NULL / Python None for an integer column (ids start at 1)
NULL == 0

(***************************************************************************)
(* Password hashing (passlib): a one-way tag around the password.          *)
(***************************************************************************)
get_password_hash(password) == <<"bcrypt", password>>

verify_password(plain_password, hashed_password) ==
    hashed_password = <<"bcrypt", plain_password>>

(***************************************************************************)
(* Tokens.  A JWT is its payload (sub, exp) and a signature; sig = "ok"    *)
(* stands for a signature made with SECRET_KEY.                            *)
(***************************************************************************)
create_access_token(sub, expires_delta) ==
    [sub |-> sub, exp |-> now + expires_delta, sig |-> "ok"]

NoToken == [sub |-> Missing, exp |-> 0, sig |-> "none"]

\* a token signed with another key
ForgedTokens ==
    { [sub |-> "alice", exp |-> MaxTime + ACCESS_TOKEN_EXPIRE_MINUTES, sig |-> "bad"] }

\* the tokens a login has handed out (issued also remembers to whom and when)
IssuedTokens == { [sub |-> i.sub, exp |-> i.exp, sig |-> "ok"] : i \in issued }

PresentedTokens == IssuedTokens \cup ForgedTokens \cup {NoToken}

\* jose jwt.decode: TRUE when the signature verifies and exp has not elapsed
jwt_decode_unverified_exp(token) == token.sig = "ok"

jwt_decode(token) == token.sig = "ok" /\ ~(token.exp < now)

\* db.query(User).filter(User.username == username).first(): the id, or NULL
UserByUsername(username) ==
    IF \E i \in 1..Len(users) : users[i].username = username
    THEN CHOOSE i \in 1..Len(users) :
            /\ users[i].username = username
            /\ \A j \in 1..Len(users) : users[j].username = username => i <= j
    ELSE NULL

UserByEmail(email) ==
    IF \E i \in 1..Len(users) : users[i].email = email
    THEN CHOOSE i \in 1..Len(users) :
            /\ users[i].email = email
            /\ \A j \in 1..Len(users) : users[j].email = email => i <= j
    ELSE NULL

\* get_current_user: the id of the user the token resolves to, or NULL (401)
get_current_user(token) ==
    IF token.sig = "none" THEN NULL
    ELSE IF ~jwt_decode(token) THEN NULL
    ELSE UserByUsername(token.sub)

(***************************************************************************)
(* The unique indexes on users.username and users.email: a commit that     *)
(* would leave the table in a violating state raises IntegrityError.       *)
(***************************************************************************)
UniqueViolationUsernameOnly(us) ==
    \E i, j \in 1..Len(us) : i # j /\ us[i].username = us[j].username

UniqueViolation(us) ==
    \E i, j \in 1..Len(us) :
        /\ i # j
        /\ \/ us[i].username = us[j].username
           \/ us[i].email = us[j].email

(***************************************************************************)
(* except Exception as e: raise HTTPException(status_code=500): the        *)
(* handlers that wrap their body in try/except turn every exception raised *)
(* in the body, HTTPException included, into a 500.                        *)
(***************************************************************************)
ExceptException(status_code) == 500

NoResp == [op |-> "none", code |-> 0]

Idle == [pc |-> "idle"]

Init ==
    /\ users = <<>>
    /\ movies = {}
    /\ ratings = {}
    /\ comments = {}
    /\ issued = {}
    /\ now = 0
    /\ reg = [s \in Slots |-> Idle]
    /\ resp = NoResp

(***************************************************************************)
(* app/auth.py register_user                                               *)
(***************************************************************************)
RegResp(body, code) ==
    [op |-> "register_user", code |-> code,
     username |-> body.username, email |-> body.email]

\* the request arrives and the username query runs
RegisterStart(s, body) ==
    /\ reg[s].pc = "idle"
    /\ UserByUsername(body.username) # NULL \/ Len(users) < MaxUsers
    /\ IF UserByUsername(body.username) # NULL
       THEN /\ resp' = RegResp(body, ExceptException(400))
            /\ reg' = reg
       ELSE /\ resp' = NoResp
            /\ reg' = [reg EXCEPT ![s] = [pc |-> "check_email", body |-> body]]
    /\ UNCHANGED <<users, movies, ratings, comments, issued, now>>

\* the email query runs
RegisterCheckEmail(s) ==
    /\ reg[s].pc = "check_email"
    /\ IF UserByEmail(reg[s].body.email) # NULL
       THEN /\ resp' = RegResp(reg[s].body, ExceptException(400))
            /\ reg' = [reg EXCEPT ![s] = Idle]
       ELSE /\ resp' = NoResp
            /\ reg' = [reg EXCEPT ![s] = [pc |-> "commit", body |-> reg[s].body]]
    /\ UNCHANGED <<users, movies, ratings, comments, issued, now>>

\* db.add(new_user); db.commit()
RegisterCommit(s) ==
    /\ reg[s].pc = "commit"
    /\ LET body == reg[s].body
           new_user == [id |-> Len(users) + 1,
                        username |-> body.username,
                        email |-> body.email,
                        hashed_password |-> get_password_hash(body.password)]
       IN  IF UniqueViolation(Append(users, new_user))
           THEN /\ resp' = RegResp(body, ExceptException(500))
                /\ users' = users
           ELSE /\ Len(users) < MaxUsers
                /\ resp' = RegResp(body, 200)
                /\ users' = Append(users, new_user)
    /\ reg' = [reg EXCEPT ![s] = Idle]
    /\ UNCHANGED <<movies, ratings, comments, issued, now>>

(***************************************************************************)
(* app/auth.py login                                                       *)
(***************************************************************************)
login(body) ==
    /\ IF body.email = Missing
       THEN \* UserCreate requires email: request validation answers 422
            /\ resp' = [op |-> "login", code |-> 422, username |-> body.username,
                        email |-> body.email, password |-> body.password,
                        token |-> NoToken]
            /\ issued' = issued
       ELSE LET db_user == UserByUsername(body.username) IN
            IF \/ db_user = NULL
               \/ ~verify_password(body.password, users[db_user].hashed_password)
            THEN /\ resp' = [op |-> "login", code |-> ExceptException(401),
                             username |-> body.username, email |-> body.email,
                             password |-> body.password, token |-> NoToken]
                 /\ issued' = issued
            ELSE LET access_token ==
                        create_access_token(users[db_user].username,
                                            ACCESS_TOKEN_EXPIRE_MINUTES)
                 IN  /\ issued' = issued \cup
                            {[sub |-> access_token.sub, exp |-> access_token.exp,
                              uid |-> db_user, at |-> now]}
                     /\ Cardinality(issued') <= MaxTokens
                     /\ resp' = [op |-> "login", code |-> 200,
                                 username |-> body.username,
                                 email |-> body.email,
                                 password |-> body.password,
                                 token |-> access_token]
    /\ UNCHANGED <<users, movies, ratings, comments, now, reg>>

(***************************************************************************)
(* app/routers/users.py                                                    *)
(***************************************************************************)
read_users_me(token) ==
    /\ LET current_user == get_current_user(token) IN
       resp' = [op |-> "read_users_me",
                code |-> IF current_user = NULL THEN 401 ELSE 200,
                token |-> token, at |-> now, user |-> current_user]
    /\ UNCHANGED <<users, movies, ratings, comments, issued, now, reg>>

update_user_me(token, user_update) ==
    /\ LET current_user == get_current_user(token) IN
       IF current_user = NULL
       THEN /\ resp' = [op |-> "update_user_me", code |-> 401,
                        token |-> token, user |-> NULL, username |-> user_update.username,
                        email |-> user_update.email]
            /\ users' = users
       ELSE LET updated == [users EXCEPT
                               ![current_user].username = user_update.username,
                               ![current_user].email = user_update.email]
            IN  IF UniqueViolation(updated)
                THEN \* IntegrityError at db.commit(), caught by the handler
                     /\ resp' = [op |-> "update_user_me",
                                 code |-> ExceptException(500),
                                 token |-> token, user |-> current_user,
                                 username |-> user_update.username,
                                 email |-> user_update.email]
                     /\ users' = users
                ELSE /\ resp' = [op |-> "update_user_me", code |-> 200,
                                 token |-> token, user |-> current_user,
                                 username |-> user_update.username,
                                 email |-> user_update.email]
                     /\ users' = updated
    /\ UNCHANGED <<movies, ratings, comments, issued, now, reg>>

(***************************************************************************)
(* The clock.                                                              *)
(***************************************************************************)
Tick ==
    /\ now + TickMinutes <= MaxTime
    /\ now' = now + TickMinutes
    /\ resp' = NoResp
    /\ UNCHANGED <<users, movies, ratings, comments, issued, reg>>

NextAuth ==
    \/ \E s \in Slots, body \in RegisterBodies : RegisterStart(s, body)
    \/ \E s \in Slots : RegisterCheckEmail(s)
    \/ \E s \in Slots : RegisterCommit(s)
    \/ \E body \in LoginBodies : login(body)
    \/ \E token \in PresentedTokens : read_users_me(token)
    \/ \E token \in PresentedTokens, user_update \in UserUpdates :
          update_user_me(token, user_update)
    \/ Tick

SpecAuth == Init /\ [][NextAuth]_vars

(***************************************************************************)
(* Resource requests.                                                      *)
(***************************************************************************)
\* MovieCreate / MovieUpdate bodies
MovieBodies ==
    { [title |-> "Test Movie", description |-> "A test movie", release_year |-> 2024],
      [title |-> "Dune", description |-> "Sand", release_year |-> 1984] }

\* ids a client may name: every id a row can have and one that no row has
MovieIds == 1..(MaxMovies + 1)
RatingValues == {5}
CommentTexts == {"Great movie!"}

\* INTEGER PRIMARY KEY of SQLite: the largest rowid in the table plus one
NextId(rows) ==
    IF rows = {} THEN 1
    ELSE (CHOOSE r \in rows : \A q \in rows : q.id <= r.id).id + 1

\* db.query(Movie).filter(Movie.id == movie_id).first() is not None
MovieExists(movie_id) == \E m \in movies : m.id = movie_id

MovieById(movie_id) == CHOOSE m \in movies : m.id = movie_id

MovieResp(op, code, movie_id, user, token) ==
    [op |-> op, code |-> code, movie_id |-> movie_id, user |-> user,
     token |-> token]

(***************************************************************************)
(* Movies: app/main.py and app/routers/movies.py                           *)
(***************************************************************************)
read_movie(movie_id) ==
    /\ resp' = MovieResp("read_movie",
                         IF MovieExists(movie_id) THEN 200 ELSE 404,
                         movie_id, NULL, NoToken)
    /\ UNCHANGED <<users, movies, ratings, comments, issued, now, reg>>

router_read_movie(movie_id) ==
    /\ resp' = MovieResp("router_read_movie",
                         IF MovieExists(movie_id) THEN 200 ELSE ExceptException(404),
                         movie_id, NULL, NoToken)
    /\ UNCHANGED <<users, movies, ratings, comments, issued, now, reg>>

\* the body shared by both create_movie handlers (no exception is raised in it)
CreateMovie(op, token, movie) ==
    /\ LET current_user == get_current_user(token) IN
       IF current_user = NULL
       THEN /\ resp' = MovieResp(op, 401, NULL, NULL, token)
            /\ movies' = movies
       ELSE /\ NextId(movies) <= MaxMovies
            /\ movies' = movies \cup
                   {[id |-> NextId(movies), title |-> movie.title,
                     description |-> movie.description,
                     release_year |-> movie.release_year,
                     owner_id |-> current_user]}
            /\ resp' = [op |-> op, code |-> 200, movie_id |-> NextId(movies),
                        user |-> current_user, token |-> token, body |-> movie]
    /\ UNCHANGED <<users, ratings, comments, issued, now, reg>>

create_movie(token, movie) == CreateMovie("create_movie", token, movie)

router_create_movie(token, movie) == CreateMovie("router_create_movie", token, movie)

\* the status update_movie and delete_movie answer with before touching the row
OwnerCheck(movie_id, current_user) ==
    IF ~MovieExists(movie_id) THEN 404
    ELSE IF MovieById(movie_id).owner_id # current_user THEN 403
    ELSE 200

OverwriteDropOwner(movie_id, movie) ==
    { IF m.id = movie_id
      THEN [m EXCEPT !.title = movie.title,
                     !.description = movie.description,
                     !.release_year = movie.release_year,
                     !.owner_id = NULL]
      ELSE m : m \in movies }

Overwrite(movie_id, movie) ==
    { IF m.id = movie_id
      THEN [m EXCEPT !.title = movie.title,
                     !.description = movie.description,
                     !.release_year = movie.release_year]
      ELSE m : m \in movies }

update_movie(token, movie_id, movie) ==
    /\ LET current_user == get_current_user(token) IN
       IF current_user = NULL
       THEN /\ resp' = MovieResp("update_movie", 401, movie_id, NULL, token)
            /\ movies' = movies
       ELSE LET status == OwnerCheck(movie_id, current_user) IN
            /\ resp' = MovieResp("update_movie", status, movie_id, current_user, token)
            /\ movies' = IF status = 200 THEN Overwrite(movie_id, movie) ELSE movies
    /\ UNCHANGED <<users, ratings, comments, issued, now, reg>>

router_update_movie(token, movie_id, movie) ==
    /\ LET current_user == get_current_user(token) IN
       IF current_user = NULL
       THEN /\ resp' = MovieResp("router_update_movie", 401, movie_id, NULL, token)
            /\ movies' = movies
       ELSE LET status == OwnerCheck(movie_id, current_user) IN
            /\ resp' = MovieResp("router_update_movie",
                                 IF status = 200 THEN 200 ELSE ExceptException(status),
                                 movie_id, current_user, token)
            /\ movies' = IF status = 200 THEN Overwrite(movie_id, movie) ELSE movies
    /\ UNCHANGED <<users, ratings, comments, issued, now, reg>>

\* db.delete(db_movie); db.commit(): Movie.ratings and Movie.comments declare no
\* delete cascade, so the ORM sets movie_id of the dependent rows to NULL
Nullify(rows, movie_id) ==
    { IF r.movie_id = movie_id THEN [r EXCEPT !.movie_id = NULL] ELSE r : r \in rows }

DeleteMovie(op, token, movie_id, caught) ==
    /\ LET current_user == get_current_user(token) IN
       IF current_user = NULL
       THEN /\ resp' = MovieResp(op, 401, movie_id, NULL, token)
            /\ UNCHANGED <<movies, ratings, comments>>
       ELSE LET status == OwnerCheck(movie_id, current_user) IN
            IF status = 200
            THEN /\ resp' = MovieResp(op, 200, movie_id, current_user, token)
                 /\ movies' = { m \in movies : m.id # movie_id }
                 /\ ratings' = Nullify(ratings, movie_id)
                 /\ comments' = Nullify(comments, movie_id)
            ELSE /\ resp' = MovieResp(op,
                                      IF caught THEN ExceptException(status) ELSE status,
                                      movie_id, current_user, token)
                 /\ UNCHANGED <<movies, ratings, comments>>
    /\ UNCHANGED <<users, issued, now, reg>>

delete_movie(token, movie_id) == DeleteMovie("delete_movie", token, movie_id, FALSE)

router_delete_movie(token, movie_id) ==
    DeleteMovie("router_delete_movie", token, movie_id, TRUE)

(***************************************************************************)
(* Ratings: app/main.py and app/routers/movies.py                          *)
(***************************************************************************)
RatingResp(op, code, movie_id, user, token, rating) ==
    [op |-> op, code |-> code, movie_id |-> movie_id, user |-> user,
     token |-> token, rating |-> rating]

InsertRating(movie_id, rating, user_id) ==
    ratings \cup {[id |-> NextId(ratings), movie_id |-> movie_id,
                   rating |-> rating, user_id |-> user_id]}

\* POST /ratings/ : the movie row is never looked up
rate_movie(token, movie_id, rating) ==
    /\ LET current_user == get_current_user(token) IN
       IF current_user = NULL
       THEN /\ resp' = RatingResp("rate_movie", 401, movie_id, NULL, token, rating)
            /\ ratings' = ratings
       ELSE /\ NextId(ratings) <= MaxRatings
            /\ ratings' = InsertRating(movie_id, rating, current_user)
            /\ resp' = RatingResp("rate_movie", 200, movie_id, current_user,
                                  token, rating)
    /\ UNCHANGED <<users, movies, comments, issued, now, reg>>

\* POST /movies/{movie_id}/ratings/
router_rate_movie(token, movie_id, rating) ==
    /\ LET current_user == get_current_user(token) IN
       IF current_user = NULL
       THEN /\ resp' = RatingResp("router_rate_movie", 401, movie_id, NULL, token, rating)
            /\ ratings' = ratings
       ELSE IF ~MovieExists(movie_id)
       THEN /\ resp' = RatingResp("router_rate_movie", ExceptException(404),
                                  movie_id, current_user, token, rating)
            /\ ratings' = ratings
       ELSE /\ NextId(ratings) <= MaxRatings
            /\ ratings' = InsertRating(movie_id, rating, current_user)
            /\ resp' = RatingResp("router_rate_movie", 200, movie_id,
                                  current_user, token, rating)
    /\ UNCHANGED <<users, movies, comments, issued, now, reg>>

\* GET /movies/{movie_id}/ratings/
get_movie_ratings(movie_id) == { r \in ratings : r.movie_id = movie_id }

(***************************************************************************)
(* Comments: app/main.py, app/routers/movies.py and the Comment model      *)
(***************************************************************************)
CommentResp(op, code, movie_id, parent_id, user, token, text) ==
    [op |-> op, code |-> code, movie_id |-> movie_id,
     parent_id |-> parent_id, user |-> user, token |-> token, text |-> text]

InsertComment(movie_id, text, user_id, parent_id) ==
    comments \cup {[id |-> NextId(comments), movie_id |-> movie_id, text |-> text,
                    user_id |-> user_id, parent_id |-> parent_id]}

\* POST /comments/ : neither the movie nor the parent comment is looked up
add_comment(token, movie_id, text, parent_id) ==
    /\ LET current_user == get_current_user(token) IN
       IF current_user = NULL
       THEN /\ resp' = CommentResp("add_comment", 401, movie_id, parent_id, NULL,
                                   token, text)
            /\ comments' = comments
       ELSE /\ NextId(comments) <= MaxComments
            /\ comments' = InsertComment(movie_id, text, current_user, parent_id)
            /\ resp' = CommentResp("add_comment", 200, movie_id, parent_id,
                                   current_user, token, text)
    /\ UNCHANGED <<users, movies, ratings, issued, now, reg>>

\* POST /movies/{movie_id}/comments/ : always a top-level comment
router_add_comment(token, movie_id, comment) ==
    /\ LET current_user == get_current_user(token) IN
       IF current_user = NULL
       THEN /\ resp' = CommentResp("router_add_comment", 401, movie_id, NULL, NULL,
                                   token, comment)
            /\ comments' = comments
       ELSE IF ~MovieExists(movie_id)
       THEN /\ resp' = CommentResp("router_add_comment", ExceptException(404),
                                   movie_id, NULL, current_user, token, comment)
            /\ comments' = comments
       ELSE /\ NextId(comments) <= MaxComments
            /\ comments' = InsertComment(movie_id, comment, current_user, NULL)
            /\ resp' = CommentResp("router_add_comment", 200, movie_id, NULL,
                                   current_user, token, comment)
    /\ UNCHANGED <<users, movies, ratings, issued, now, reg>>

get_movie_comments_unfiltered(movie_id) == comments

\* GET /movies/{movie_id}/comments/
get_movie_comments(movie_id) == { c \in comments : c.movie_id = movie_id }

\* Comment.replies: the rows whose parent_id is one of the given ids
Replies(ids) == { c.id : c \in { r \in comments : r.parent_id \in ids } }

\* cascade="all, delete-orphan" on Comment.replies: a delete reaches the replies
\* of every row it deletes
CascadeOneLevel(ids) == ids \cup Replies(ids)

RECURSIVE Cascade(_)
Cascade(ids) ==
    IF Replies(ids) \subseteq ids THEN ids ELSE Cascade(ids \cup Replies(ids))

\* deleting a comment through the ORM session
delete_comment(comment_id) ==
    /\ \E c \in comments : c.id = comment_id
    /\ comments' = { c \in comments : c.id \notin Cascade({comment_id}) }
    /\ resp' = [op |-> "delete_comment", code |-> 200, comment_id |-> comment_id,
                movie_id |-> (CHOOSE c \in comments : c.id = comment_id).movie_id,
                removed |-> comments \ comments']
    /\ UNCHANGED <<users, movies, ratings, issued, now, reg>>

(***************************************************************************)
(* Specifications.  SpecAuth runs the identity component from the empty    *)
(* database.  The resource specifications start in states SpecAuth and     *)
(* SpecMovies reach (alice and carol registered, logged in at time 0).     *)
(***************************************************************************)
SeededUsers ==
    << [id |-> 1, username |-> "alice", email |-> "alice@x.com",
        hashed_password |-> get_password_hash("pw1")],
       [id |-> 2, username |-> "carol", email |-> "carol@x.com",
        hashed_password |-> get_password_hash("pw1")] >>

SeededLogin(uid) ==
    [sub |-> SeededUsers[uid].username, exp |-> ACCESS_TOKEN_EXPIRE_MINUTES,
     uid |-> uid, at |-> 0]

SeededMovie(id) ==
    [id |-> id, title |-> "Test Movie", description |-> "A test movie",
     release_year |-> 2024, owner_id |-> 1]

InitMovies ==
    /\ users = SeededUsers
    /\ movies = {}
    /\ ratings = {}
    /\ comments = {}
    /\ issued = {SeededLogin(1), SeededLogin(2)}
    /\ now = 0
    /\ reg = [s \in Slots |-> Idle]
    /\ resp = NoResp

InitComments ==
    /\ users = SeededUsers
    /\ movies = {SeededMovie(1), SeededMovie(2)}
    /\ ratings = {}
    /\ comments = {}
    /\ issued = {SeededLogin(1)}
    /\ now = 0
    /\ reg = [s \in Slots |-> Idle]
    /\ resp = NoResp

\* UserUpdate bodies of the resource specifications: a username nobody holds,
\* and alice's own
GuardUserUpdates ==
    { [username |-> "dave", email |-> "dave@x.com"],
      [username |-> "alice", email |-> "alice@x.com"] }

\* alice and carol registered, alice alone logged in
InitGuard ==
    /\ users = SeededUsers
    /\ movies = {}
    /\ ratings = {}
    /\ comments = {}
    /\ issued = {SeededLogin(1)}
    /\ now = 0
    /\ reg = [s \in Slots |-> Idle]
    /\ resp = NoResp

NextMovies ==
    \/ \E movie_id \in MovieIds : read_movie(movie_id)
    \/ \E movie_id \in MovieIds : router_read_movie(movie_id)
    \/ \E token \in PresentedTokens, movie \in MovieBodies : create_movie(token, movie)
    \/ \E token \in PresentedTokens, movie \in MovieBodies :
          router_create_movie(token, movie)
    \/ \E token \in PresentedTokens, movie_id \in MovieIds, movie \in MovieBodies :
          update_movie(token, movie_id, movie)
    \/ \E token \in PresentedTokens, movie_id \in MovieIds, movie \in MovieBodies :
          router_update_movie(token, movie_id, movie)
    \/ \E token \in PresentedTokens, movie_id \in MovieIds : delete_movie(token, movie_id)
    \/ \E token \in PresentedTokens, movie_id \in MovieIds :
          router_delete_movie(token, movie_id)
    \/ \E token \in PresentedTokens, user_update \in GuardUserUpdates :
          update_user_me(token, user_update)

NextRatings ==
    \/ \E token \in PresentedTokens, movie \in MovieBodies : create_movie(token, movie)
    \/ \E token \in PresentedTokens, movie_id \in MovieIds : delete_movie(token, movie_id)
    \/ \E token \in PresentedTokens, movie_id \in MovieIds, rating \in RatingValues :
          rate_movie(token, movie_id, rating)
    \/ \E token \in PresentedTokens, movie_id \in MovieIds, rating \in RatingValues :
          router_rate_movie(token, movie_id, rating)

NextComments ==
    \/ \E token \in PresentedTokens, movie_id \in MovieIds, text \in CommentTexts,
          parent_id \in {NULL} \cup (1..MaxComments) :
          add_comment(token, movie_id, text, parent_id)
    \/ \E token \in PresentedTokens, movie_id \in MovieIds, text \in CommentTexts :
          router_add_comment(token, movie_id, text)
    \/ \E comment_id \in 1..MaxComments : delete_comment(comment_id)

SpecMovies == InitMovies /\ [][NextMovies]_vars

SpecRatings == InitMovies /\ [][NextRatings]_vars

SpecComments == InitComments /\ [][NextComments]_vars

\* every mutating resource operation, while time passes and users rename
\* themselves; each table holds at most MaxGuardRows rows
NextGuard ==
    \/ Tick
    \/ \E token \in PresentedTokens, user_update \in GuardUserUpdates :
          update_user_me(token, user_update)
    \/ \E token \in PresentedTokens, movie \in MovieBodies :
          create_movie(token, movie) /\ Cardinality(movies') <= MaxGuardRows
    \/ \E token \in PresentedTokens, movie \in MovieBodies :
          router_create_movie(token, movie) /\ Cardinality(movies') <= MaxGuardRows
    \/ \E token \in PresentedTokens, movie_id \in MovieIds, movie \in MovieBodies :
          update_movie(token, movie_id, movie)
    \/ \E token \in PresentedTokens, movie_id \in MovieIds, movie \in MovieBodies :
          router_update_movie(token, movie_id, movie)
    \/ \E token \in PresentedTokens, movie_id \in MovieIds : delete_movie(token, movie_id)
    \/ \E token \in PresentedTokens, movie_id \in MovieIds :
          router_delete_movie(token, movie_id)
    \/ \E token \in PresentedTokens, movie_id \in MovieIds, rating \in RatingValues :
          rate_movie(token, movie_id, rating) /\ Cardinality(ratings') <= MaxGuardRows
    \/ \E token \in PresentedTokens, movie_id \in MovieIds, rating \in RatingValues :
          /\ router_rate_movie(token, movie_id, rating)
          /\ Cardinality(ratings') <= MaxGuardRows
    \/ \E token \in PresentedTokens, movie_id \in MovieIds, text \in CommentTexts,
          parent_id \in {NULL, 1} :
          /\ add_comment(token, movie_id, text, parent_id)
          /\ Cardinality(comments') <= MaxGuardRows
    \/ \E token \in PresentedTokens, movie_id \in MovieIds, text \in CommentTexts :
          /\ router_add_comment(token, movie_id, text)
          /\ Cardinality(comments') <= MaxGuardRows

SpecGuard == InitGuard /\ [][NextGuard]_vars

\* comment texts of the listing specification, and the most comments it adds
MaxListed == 2
ListedTexts == {"Great movie!", "Too long"}

\* ratings and top-level comments on two seeded movies and on an id that names
\* no movie
NextListing ==
    \/ \E token \in PresentedTokens, movie_id \in MovieIds, rating \in RatingValues :
          rate_movie(token, movie_id, rating)
    \/ \E token \in PresentedTokens, movie_id \in MovieIds, rating \in RatingValues :
          router_rate_movie(token, movie_id, rating)
    \/ \E token \in PresentedTokens, movie_id \in MovieIds, text \in ListedTexts :
          add_comment(token, movie_id, text, NULL) /\ Cardinality(comments') <= MaxListed
    \/ \E token \in PresentedTokens, movie_id \in MovieIds, text \in ListedTexts :
          /\ router_add_comment(token, movie_id, text)
          /\ Cardinality(comments') <= MaxListed

SpecListing == InitComments /\ [][NextListing]_vars

\* every operation of the service, from the empty database
Next ==
    NextAuth \/ NextMovies \/ NextRatings \/ NextComments \/ NextGuard \/ NextListing

Spec == Init /\ [][Next]_vars

(***************************************************************************)
(* Properties.                                                             *)
(***************************************************************************)

\* C1: a registration that finds its username or its email already in the
\* users table answers 400 (Conflict) and adds no user.
C1_RegisterConflict ==
    [][ ( /\ resp'.op = "register_user"
          /\ \/ UserByUsername(resp'.username) # NULL
             \/ UserByEmail(resp'.email) # NULL )
        => (resp'.code = 400 /\ users' = users) ]_vars

\* the registered user with this username has this password
PasswordMatches(username, password) ==
    \E i \in 1..Len(users) :
        /\ users[i].username = username
        /\ verify_password(password, users[i].hashed_password)

\* C2: a login whose password does not match, for a registered or an unknown
\* username, answers 401 (Unauthorized) and hands out no token.
C2_LoginUnauthorized ==
    ( /\ resp.op = "login"
      /\ resp.email # Missing
      /\ ~PasswordMatches(resp.username, resp.password) )
    => (resp.code = 401 /\ resp.token = NoToken)

\* C3: a request carrying a token issued at time T resolves to the user the
\* token was issued to when made at a time up to T + 30 minutes and is
\* answered 401 after that; a token with a bad signature is answered 401.
C3_TokenWindow ==
    resp.op = "read_users_me" =>
        /\ \A i \in issued :
              (resp.token = [sub |-> i.sub, exp |-> i.exp, sig |-> "ok"]) =>
                  IF resp.at <= i.at + 30
                  THEN resp.code = 200 /\ resp.user = i.uid
                  ELSE resp.code = 401
        /\ resp.token.sig = "bad" => resp.code = 401

MovieWriteOps ==
    {"update_movie", "router_update_movie", "delete_movie", "router_delete_movie"}

\* C4: an update or delete of an existing movie by an authenticated user who is
\* not its owner answers 403 (Forbidden) and leaves the movies unchanged; only
\* the owner's request changes or removes a movie.
C4_OwnerOnly ==
    [][ ( /\ resp'.op \in MovieWriteOps
          /\ resp'.user # NULL
          /\ MovieExists(resp'.movie_id)
          /\ MovieById(resp'.movie_id).owner_id # resp'.user )
        => (resp'.code = 403 /\ movies' = movies) ]_vars

UsersUnique ==
    \A i, j \in 1..Len(users) :
        i # j => /\ users[i].username # users[j].username
                 /\ users[i].email # users[j].email

\* another user than uid holds the username or the email
HeldByOther(uid, username, email) ==
    \E j \in 1..Len(users) :
        j # uid /\ (users[j].username = username \/ users[j].email = email)

\* C5: no two users share a username or an email, and an update of one's own
\* profile to a username or email that another user holds does not succeed.
C5_UsersUnique ==
    /\ []UsersUnique
    /\ [][ ( /\ resp'.op = "update_user_me"
             /\ resp'.user # NULL
             /\ HeldByOther(resp'.user, resp'.username, resp'.email) )
           => (resp'.code # 200 /\ users' = users) ]_vars

\* an update to a username another user holds has been refused
C5_Witness ==
    /\ resp.op = "update_user_me"
    /\ resp.user # NULL
    /\ resp.code = 500
    /\ Len(users) = 2
    /\ HeldByOther(resp.user, resp.username, resp.email)

\* following parent_id upwards from comment id reaches root within n steps
RECURSIVE ReachesUp(_, _, _)
ReachesUp(id, root, n) ==
    \/ id = root
    \/ /\ n > 0
       /\ \E c \in comments :
             /\ c.id = id
             /\ c.parent_id # NULL
             /\ ReachesUp(c.parent_id, root, n - 1)

\* C6: deleting a comment removes the comment and every comment below it in
\* the reply tree, so that no listing returns them afterwards, and keeps every
\* other comment.
C6_DeleteCascades ==
    [][ resp'.op = "delete_comment" =>
          \A c \in comments :
              IF ReachesUp(c.id, resp'.comment_id, MaxComments)
              THEN /\ c \notin comments'
                   /\ c \notin get_movie_comments(c.movie_id)'
              ELSE c \in comments' ]_vars

\* a comment has been deleted together with a reply and a reply of that reply
C6_Witness ==
    /\ resp.op = "delete_comment"
    /\ \E a, b \in resp.removed :
          /\ a.id # resp.comment_id
          /\ a.parent_id = resp.comment_id
          /\ b.id \notin {a.id, resp.comment_id}
          /\ b.parent_id = a.id
    /\ \A c \in resp.removed : c \notin comments

\* C7: creating a rating for a movie id that is not in the movies table
\* answers 404 (NotFound) and adds no rating, on both routes.
C7_RatingNeedsMovie ==
    [][ ( /\ resp'.op \in {"rate_movie", "router_rate_movie"}
          /\ resp'.user # NULL
          /\ ~MovieExists(resp'.movie_id) )
        => (resp'.code = 404 /\ ratings' = ratings) ]_vars

\* C8: every comment with a parent_id refers to an existing comment on the
\* same movie.
C8_ParentOnSameMovie ==
    \A c \in comments :
        c.parent_id # NULL =>
            \E p \in comments : p.id = c.parent_id /\ p.movie_id = c.movie_id

\* C9: a registration whose insert meets a user that another request has
\* inserted since its existence checks passed creates no user and answers 400
\* (Conflict).
C9_RaceReportsConflict ==
    [][ ( /\ resp'.op = "register_user"
          /\ \E s \in Slots : reg[s].pc = "commit" /\ reg'[s].pc = "idle"
          /\ \/ UserByUsername(resp'.username) # NULL
             \/ UserByEmail(resp'.email) # NULL )
        => (resp'.code = 400 /\ users' = users) ]_vars

MovieOps == MovieWriteOps \cup {"read_movie", "router_read_movie"}

\* C10: reading, updating or deleting a movie id that is not in the movies
\* table answers 404 (NotFound), whoever the authenticated requester is.
C10_MissingMovieNotFound ==
    [][ ( /\ resp'.op \in MovieOps
          /\ resp'.op \in MovieWriteOps => resp'.user # NULL
          /\ ~MovieExists(resp'.movie_id) )
        => (resp'.code = 404 /\ movies' = movies) ]_vars

MutatingOps ==
    MovieWriteOps \cup
    {"create_movie", "router_create_movie", "rate_movie", "router_rate_movie",
     "add_comment", "router_add_comment", "update_user_me"}

\* the token is missing, badly signed, older than 30 minutes, or names a
\* username that no user holds
Rejectable(token) ==
    \/ token.sig # "ok"
    \/ \E i \in issued : i.sub = token.sub /\ i.exp = token.exp /\ now > i.at + 30
    \/ \A i \in 1..Len(users) : users[i].username # token.sub

\* C11: a mutating operation called with a token that is missing, badly
\* signed, expired or whose subject names no user answers 401 and leaves users,
\* movies, ratings and comments unchanged.
C11_RejectedLeavesStore ==
    [][ (resp'.op \in MutatingOps /\ Rejectable(resp'.token))
        => /\ resp'.code = 401
           /\ UNCHANGED <<users, movies, ratings, comments>> ]_vars

\* a delete of an existing movie has been refused for an unexpired, well
\* signed token whose subject no longer names a user
C11_Witness ==
    /\ resp.op = "delete_movie"
    /\ resp.code = 401
    /\ resp.token.sig = "ok"
    /\ now <= resp.token.exp
    /\ \A i \in 1..Len(users) : users[i].username # resp.token.sub
    /\ MovieExists(resp.movie_id)

\* C12: once a user is registered, a login that carries only the username and
\* the password answers 200 with a token whose subject resolves to that user.
C12_LoginAfterRegister ==
    ( /\ resp.op = "login"
      /\ resp.email = Missing
      /\ PasswordMatches(resp.username, resp.password) )
    => /\ resp.code = 200
       /\ resp.token.sig = "ok"
       /\ get_current_user(resp.token) # NULL
       /\ users[get_current_user(resp.token)].username = resp.username

\* C13: a successful create adds one movie with the given title, description
\* and release_year, owned by the user the request authenticated as, and no
\* request changes the owner_id of a movie that stays in the table.
C13_OwnerIsCreator ==
    [][ /\ ( resp'.op \in {"create_movie", "router_create_movie"}
             /\ resp'.code = 200 )
           => \E m \in movies' :
                 /\ m \notin movies
                 /\ movies' = movies \cup {m}
                 /\ m.id = resp'.movie_id
                 /\ m.title = resp'.body.title
                 /\ m.description = resp'.body.description
                 /\ m.release_year = resp'.body.release_year
                 /\ m.owner_id # NULL
                 /\ users[m.owner_id].username = resp'.token.sub
        /\ \A m \in movies, n \in movies' :
              m.id = n.id => n.owner_id = m.owner_id ]_vars

\* carol's movie has been rewritten by carol, and is still hers
C13_Witness ==
    /\ resp.op = "update_movie"
    /\ resp.code = 200
    /\ resp.user = 2
    /\ \E m \in movies :
          m.id = resp.movie_id /\ m.owner_id = 2 /\ m.title = "Dune"
    /\ users[1].username = "dave"

C15_RowsReferenceMovies ==
    /\ \A r \in ratings : MovieExists(r.movie_id)
    /\ \A c \in comments : MovieExists(c.movie_id)

\* C16: a request that read_users_me accepts is answered with the user its
\* token was issued to at login.
C16_TokenKeepsIdentity ==
    ( resp.op = "read_users_me" /\ resp.code = 200 )
    => \A i \in issued :
          ( i.sub = resp.token.sub /\ i.exp = resp.token.exp )
          => resp.user = i.uid

====
